---- MODULE Spec2Model ----
(***************************************************************************)
(* A model of the two scripts of WarmachineTTS:                            *)
(*   Image.py              - the fuzzy image matcher   ("Pipeline B")      *)
(*   Assets/Table/Trim.py  - the square/thumbnail normaliser ("Pipeline A")*)
(*                                                                         *)
(* Text is a sequence of one-character strings.  The module holds four     *)
(* specifications over one set of variables; the variables a specification *)
(* does not use keep their idle value:                                     *)
(*   SpecNorm - normalise() applied twice to a bounded text                *)
(*   SpecCrop - centre_crop_square() applied to a bounded image size       *)
(*   SpecA    - Trim.py main(): one run over an enumerated list of images  *)
(*   SpecB    - Image.py main(): a run and a rerun over one filesystem     *)
(***************************************************************************)
EXTENDS Integers, Sequences, FiniteSets, TLC

VARIABLES
    \* ---- SpecNorm
    normIn,        \* the text handed to normalise
    normOnce,      \* normalise(normIn)
    normTwice,     \* normalise(normalise(normIn))
    normPasses,    \* how many times normalise has been applied (0..2)
    \* ---- SpecCrop
    cropIn,        \* the image handed to centre_crop_square
    cropOut,       \* the image it returned
    cropDone,      \* whether it has been applied
    \* ---- SpecA (Trim.py main)
    argsA,         \* the parsed command line and the state of the input folder
    imagesA,       \* the pictures iter_images yields, in its order
    pcA,           \* "start", "loop" or "done"
    idxA,          \* index in imagesA of the next picture
    changed,       \* main's counter `changed`
    skipped,       \* main's counter `skipped`
    failed,        \* main's counter `failed`
    exitA,         \* main's return value, NotExited while it runs
    outcomeA,      \* per picture processed: what happened to it
    writesA,       \* every filesystem write so far, in order
    \* ---- SpecB (Image.py main)
    outputDir,     \* OUTPUT_DIR: "ModelArt", or IMAGE_DIR itself
    excel,         \* the spreadsheet: its state and the unique names of its Name column
    fuzzTab,       \* what thefuzz answers for each (model name, file stem)
    fs,            \* the files: path -> content, Absent where there is none
    dirs,          \* the directories that exist
    reportFile,    \* the content of REPORT_FILE, Absent when there is none
    run,           \* "first" or "rerun"
    dryRun,        \* DRY_RUN of the current run
    listing,       \* the order in which image_dir.iterdir() lists this run
    pcB,           \* "idle", "loop", "done" or "crashed"
    image_index,   \* main's image_index: the image files as enumerated
    iB,            \* index in the model names of the next name
    report_rows,   \* main's report_rows
    counters,      \* main's copied, skipped, already_exists, no_match
    firstRun       \* what the first run did, kept for the rerun to be compared with

normVars == <<normIn, normOnce, normTwice, normPasses>>
cropVars == <<cropIn, cropOut, cropDone>>
trimVars == <<argsA, imagesA, pcA, idxA, changed, skipped, failed, exitA,
              outcomeA, writesA>>

matchVars == <<outputDir, excel, fuzzTab, fs, dirs, reportFile, run, dryRun,
               listing, pcB, image_index, iB, report_rows, counters, firstRun>>

vars == <<normVars, cropVars, trimVars, matchVars>>

(***************************************************************************)
(* Characters and Python's str / re primitives                             *)
(***************************************************************************)
NL == "\n"

LowerSeq == <<"a","b","c","d","e","f","g","h","i","j","k","l","m",
              "n","o","p","q","r","s","t","u","v","w","x","y","z">>
UpperSeq == <<"A","B","C","D","E","F","G","H","I","J","K","L","M",
              "N","O","P","Q","R","S","T","U","V","W","X","Y","Z">>

Range(s) == {s[i] : i \in DOMAIN s}

LowerChars == Range(LowerSeq)
UpperChars == Range(UpperSeq)
DigitChars == {"0","1","2","3","4","5","6","7","8","9"}

\* \s of a Python str pattern, within the characters modelled
WhiteChars == {" ", "\t", NL}

\* [\s_\-]
SepChars == WhiteChars \cup {"_", "-"}

\* [_\-]
DashChars == {"_", "-"}

\* str.lower() of one character
LowerChar(c) ==
    IF c \in UpperChars
    THEN LowerSeq[CHOOSE i \in DOMAIN UpperSeq : UpperSeq[i] = c]
    ELSE c

\* str.lower()
Lower(s) == [i \in 1..Len(s) |-> LowerChar(s[i])]

\* The place where `$` matches when the match must end in a character that
\* is no newline: the end of the string, or just before one trailing newline.
DollarEnd(s) ==
    IF Len(s) > 0 /\ s[Len(s)] = NL THEN Len(s) - 1 ELSE Len(s)

\* s with s[from..to] cut out
Cut(s, from, to) == SubSeq(s, 1, from - 1) \o SubSeq(s, to + 1, Len(s))

\* re.sub(r'\.[a-z]{2,4}$', '', s)
StripExtension(s) ==
    LET e  == DollarEnd(s)
        Ks == {k \in 2..4 : /\ e - k >= 1
                            /\ s[e - k] = "."
                            /\ \A j \in (e - k + 1)..e : s[j] \in LowerChars}
    IN IF Ks = {} THEN s
       ELSE LET k == CHOOSE x \in Ks : TRUE IN Cut(s, e - k, e)

\* first index of the maximal run of characters of C that ends at index e
RECURSIVE RunStart(_, _, _)
RunStart(s, e, C) ==
    IF e >= 1 /\ s[e] \in C THEN RunStart(s, e - 1, C) ELSE e + 1

\* re.sub(r'[\s_\-]*\d+$', '', s)
StripTrailingDigits(s) ==
    LET e == DollarEnd(s)
    IN IF e >= 1 /\ s[e] \in DigitChars
       THEN LET d == RunStart(s, e, DigitChars)
                p == RunStart(s, d - 1, SepChars)
            IN Cut(s, p, e)
       ELSE s

\* s without its leading characters of C
RECURSIVE DropWhile(_, _)
DropWhile(s, C) ==
    IF s # <<>> /\ Head(s) \in C THEN DropWhile(Tail(s), C) ELSE s

\* re.sub(r'[C]+', ' ', s): every maximal run of characters of C becomes one space
RECURSIVE CollapseRuns(_, _)
CollapseRuns(s, C) ==
    IF s = <<>> THEN <<>>
    ELSE IF Head(s) \in C
         THEN <<" ">> \o CollapseRuns(DropWhile(Tail(s), C), C)
         ELSE <<Head(s)>> \o CollapseRuns(Tail(s), C)

\* str.strip()
Strip(s) ==
    LET t == DropWhile(s, WhiteChars)
        e == RunStart(t, Len(t), WhiteChars) - 1
    IN SubSeq(t, 1, e)

\* Image.py normalise(text), with the lowercasing left out
normaliseNoLower(text) ==
    Strip(CollapseRuns(CollapseRuns(
        StripTrailingDigits(StripExtension(text)), DashChars), WhiteChars))

\* Image.py normalise(text)
normalise(text) ==
    Strip(CollapseRuns(CollapseRuns(
        StripTrailingDigits(StripExtension(Lower(text))), DashChars), WhiteChars))

(***************************************************************************)
(* Images (Trim.py).  An image is its size and the box of the source       *)
(* picture its pixels come from: <<left, top, right, bottom>>.             *)
(***************************************************************************)
Min(a, b) == IF a <= b THEN a ELSE b

\* the picture as opened: w x h, showing all of itself
Picture(w, h) == [w |-> w, h |-> h, box |-> <<0, 0, w, h>>]

\* PIL Image.crop((left, top, right, bottom)) of an uncropped picture
Crop(img, left, top, right, bottom) ==
    [w |-> right - left, h |-> bottom - top, box |-> <<left, top, right, bottom>>]

\* a crop that starts at the top-left corner instead of the centre
cropTopLeft(img) ==
    IF img.w = img.h THEN img
    ELSE LET side == Min(img.w, img.h) IN Crop(img, 0, 0, side, side)

\* Trim.py centre_crop_square(img)
centre_crop_square(img) ==
    IF img.w = img.h THEN img
    ELSE LET side == Min(img.w, img.h)
             left == (img.w - side) \div 2
             top  == (img.h - side) \div 2
         IN Crop(img, left, top, left + side, top + side)

NoImage == [w |-> 0, h |-> 0, box |-> <<0, 0, 0, 0>>]

IdleCrop ==
    /\ cropIn = NoImage
    /\ cropOut = NoImage
    /\ cropDone = FALSE

(***************************************************************************)
(* Trim.py: the per-picture step of main and what it calls                 *)
(***************************************************************************)
\* an optional argument is None or <<value>>
None == <<>>
Some(v) == <<v>>
Val(opt) == opt[1]

\* PIL Image.resize((m, m))
Resize(img, m) == [img EXCEPT !.w = m, !.h = m]

\* Trim.py maybe_resize_square(img, max_size); `not max_size` holds of None and 0
maybe_resize_square(img, max_size) ==
    IF max_size = None \/ Val(max_size) = 0 THEN img
    ELSE IF img.w <= Val(max_size) /\ img.h <= Val(max_size) THEN img
    ELSE Resize(img, Val(max_size))

\* Trim.py make_thumbnail(img, thumb_size): PIL's thumbnail() only ever shrinks
make_thumbnail(img, thumb_size) ==
    IF img.w <= thumb_size /\ img.h <= thumb_size THEN img
    ELSE Resize(img, thumb_size)

\* Trim.py save_image(out_path, img): the parent directory is made, then the
\* file is written unless the save raises
save_image(writes, kind, i, raises) ==
    IF raises THEN Append(writes, <<"mkdir", kind, i>>)
    ELSE Append(Append(writes, <<"mkdir", kind, i>>), <<"file", kind, i>>)

\* the places of one iteration where an exception can be raised
Hazards == {"none", "open", "square_save", "thumb_save"}

\* need_square_write with the max-size test left out
needSquareWriteCropOnly(w, h, max_size, sq) == w # h

\* Trim.py main, line 146
need_square_write(w, h, max_size, sq) ==
    (w # h) \/ (max_size # None /\ sq.w # w)

\* an except clause that ends the batch
onExceptionAbort(st) ==
    [st EXCEPT !.failed = @ + 1, !.status = "failed", !.abort = TRUE]

\* Trim.py main, lines 183-185: the except clause of one iteration
onException(st) ==
    [st EXCEPT !.failed = @ + 1, !.status = "failed"]

\* a thumbnail failure that takes back the count of the square step
thumbFailureUncounted(st, need) ==
    onException(IF need THEN [st EXCEPT !.changed = @ - 1]
                        ELSE [st EXCEPT !.skipped = @ - 1])

\* Trim.py main, lines 181-185: save_image(thumb_path, ...) raises
thumbFailure(st, need) == onException(st)

\* Trim.py main, lines 130-185: one iteration of the loop over iter_images.
\* st holds the counters and the writes; hazard is where the environment
\* would raise, if the iteration gets there.
ProcessImage(st0, args, im, i, hazard) ==
    LET st == [st0 EXCEPT !.status = "ok", !.need = FALSE, !.sq = im,
                          !.thumb = im, !.failedAt = "none"]
    IN
    IF hazard = "open"
    THEN onException([st EXCEPT !.failedAt = "open"])
    ELSE
    LET w     == im.w
        h     == im.h
        sq    == maybe_resize_square(centre_crop_square(im), args.max_size)
        need  == need_square_write(w, h, args.max_size, sq)
        thumb == make_thumbnail(sq, args.thumb_size)
        st1   == [st EXCEPT !.need = need, !.sq = sq, !.thumb = thumb]
    IN
    IF args.dry_run
    THEN [st1 EXCEPT !.changed = @ + 1]
    ELSE IF need /\ hazard = "square_save"
    THEN onException([st1 EXCEPT
             !.writes = save_image(@, "square", i, TRUE),
             !.failedAt = "square_save"])
    ELSE
    LET st2 == IF need
               THEN [st1 EXCEPT !.writes = save_image(@, "square", i, FALSE),
                                !.changed = @ + 1]
               ELSE [st1 EXCEPT !.skipped = @ + 1]
    IN
    IF hazard = "thumb_save"
    THEN thumbFailure([st2 EXCEPT !.writes = save_image(@, "thumb", i, TRUE),
                                  !.failedAt = "thumb_save"], need)
    ELSE [st2 EXCEPT !.writes = save_image(@, "thumb", i, FALSE)]

\* Trim.py main, line 191
exitStatus(nfailed) == IF nfailed = 0 THEN 0 ELSE 1

NotExited == -1

IdleTrim ==
    /\ argsA = [folderOk |-> FALSE, inplace |-> FALSE, outGiven |-> FALSE,
                max_size |-> None, thumb_size |-> 0, dry_run |-> FALSE]
    /\ imagesA = <<>>
    /\ pcA = "idle"
    /\ idxA = 0
    /\ changed = 0
    /\ skipped = 0
    /\ failed = 0
    /\ exitA = NotExited
    /\ outcomeA = <<>>
    /\ writesA = <<>>

(***************************************************************************)
(* Image.py: paths, the helpers and the decision of main                   *)
(***************************************************************************)
\* IMAGE_DIR (Image.py line 46) and OUTPUT_DIR (line 47)
IMAGE_DIR == "ModelArtOld"
OUTPUT_DIR == "ModelArt"

\* MIN_SCORE (Image.py line 50)
MIN_SCORE == 60

Absent == <<>>

\* index of the last "." of a file name, 0 when there is none (str.rfind + 1)
LastDot(name) ==
    LET dots == {i \in DOMAIN name : name[i] = "."}
    IN IF dots = {} THEN 0 ELSE CHOOSE i \in dots : \A j \in dots : j <= i

\* pathlib: a suffix starts at the last dot, unless that dot starts or ends the name
HasSuffix(name) == 1 < LastDot(name) /\ LastDot(name) < Len(name)

\* Path.suffix
Suffix(name) ==
    IF HasSuffix(name) THEN SubSeq(name, LastDot(name), Len(name)) ELSE <<>>

\* Path.stem
Stem(name) ==
    IF HasSuffix(name) THEN SubSeq(name, 1, LastDot(name) - 1) ELSE name

\* the suffixes main indexes (Image.py line 128)
ImageSuffixes == {<<".","p","n","g">>, <<".","j","p","g">>,
                  <<".","j","p","e","g">>, <<".","w","e","b","p">>}

\* [\\/*?:"<>|]
IllegalChars == {"\\", "/", "*", "?", ":", "\"", "<", ">", "|"}

RECURSIVE RemoveChars(_, _)
RemoveChars(s, C) ==
    IF s = <<>> THEN <<>>
    ELSE IF Head(s) \in C THEN RemoveChars(Tail(s), C)
         ELSE <<Head(s)>> \o RemoveChars(Tail(s), C)

\* Image.py safe_filename(name)
safe_filename(name) ==
    Strip(CollapseRuns(RemoveChars(name, IllegalChars), WhiteChars))

\* Image.py main, lines 146-147: output_dir / f"{target_stem}.png"
TargetPath(outDir, model_name) ==
    <<outDir, safe_filename(model_name) \o <<".","p","n","g">>>>

Max(a, b) == IF a >= b THEN a ELSE b

\* Image.py score(excel_norm, file_norm, excel_raw, file_raw): the best of the
\* five thefuzz ratios.  All five are taken of lowercased texts (normalise
\* lowercases first, the raw texts are passed through lower()), so thefuzz is
\* asked about the pair of lowercased raw texts.
score(tab, excel_raw, file_raw) ==
    LET r == tab[<<Lower(excel_raw), Lower(file_raw)>>]
    IN Max(r[1], Max(r[2], Max(r[3], Max(r[4], r[5]))))

\* Image.py main, lines 151-154: one candidate per indexed image
Candidates(tab, index, model_name) ==
    [k \in DOMAIN index |->
        [path  |-> index[k].path,
         norm  |-> index[k].norm,
         score |-> score(tab, model_name, Stem(index[k].path[2]))]]

\* x put into the descending list t behind every element that scores no less
InsertBehindEquals(t, x) ==
    LET lower == {j \in DOMAIN t : t[j].score < x.score}
        at == IF lower = {} THEN Len(t) + 1
              ELSE CHOOSE j \in lower : \A k \in lower : j <= k
    IN SubSeq(t, 1, at - 1) \o <<x>> \o SubSeq(t, at, Len(t))

\* x put into the descending list t before every element that scores no more
InsertBeforeEquals(t, x) ==
    LET notHigher == {j \in DOMAIN t : t[j].score <= x.score}
        at == IF notHigher = {} THEN Len(t) + 1
              ELSE CHOOSE j \in notHigher : \A k \in notHigher : j <= k
    IN SubSeq(t, 1, at - 1) \o <<x>> \o SubSeq(t, at, Len(t))

\* a descending sort that turns the order of equal scores around
RECURSIVE sortDescendingUnstable(_)
sortDescendingUnstable(c) ==
    IF c = <<>> THEN <<>>
    ELSE InsertBeforeEquals(sortDescendingUnstable(SubSeq(c, 1, Len(c) - 1)), c[Len(c)])

\* Image.py main, line 155: list.sort(key=score, reverse=True), which is stable:
\* equal scores keep their order
RECURSIVE sortDescending(_)
sortDescending(c) ==
    IF c = <<>> THEN <<>>
    ELSE InsertBehindEquals(sortDescending(SubSeq(c, 1, Len(c) - 1)), c[Len(c)])

\* a decision that copies onto a target that exists
decideOverwrite(best_score, targetExists, targetIsBest, dry) ==
    IF best_score < MIN_SCORE THEN "NO_MATCH"
    ELSE IF targetExists /\ targetIsBest THEN "ALREADY_CORRECT"
    ELSE IF dry THEN "DRY_RUN_COPY" ELSE "COPIED"

\* Image.py main, lines 160-180: the action chosen for one model name
decide(best_score, targetExists, targetIsBest, dry) ==
    IF best_score < MIN_SCORE THEN "NO_MATCH"
    ELSE IF targetExists /\ targetIsBest THEN "ALREADY_CORRECT"
    ELSE IF targetExists THEN "SKIPPED_EXISTS"
    ELSE IF dry THEN "DRY_RUN_COPY" ELSE "COPIED"

\* a copy that takes the source away: shutil.move(src, dst)
moveInsteadOfCopy(files, src, dst) ==
    [files EXCEPT ![dst] = files[src], ![src] = Absent]

\* shutil.copy2(src, dst)
copy2(files, src, dst) == [files EXCEPT ![dst] = files[src]]

\* Image.py main, lines 145-200: one iteration of the loop over model_names.
\* The result holds the files, the counters and the report row.
MatchOne(files, tab, index, outDir, model_name, dry, cnt) ==
    LET target_path  == TargetPath(outDir, model_name)
        candidates   == sortDescending(Candidates(tab, index, model_name))
        best         == candidates[1]
        targetExists == files[target_path] # Absent
        action       == decide(best.score, targetExists,
                               target_path = best.path, dry)
        key          == CASE action = "NO_MATCH" -> "no_match"
                          [] action = "ALREADY_CORRECT" -> "already_exists"
                          [] action = "SKIPPED_EXISTS" -> "skipped"
                          [] OTHER -> "copied"
    IN [files |-> IF action = "COPIED"
                  THEN copy2(files, best.path, target_path) ELSE files,
        counters |-> [cnt EXCEPT ![key] = @ + 1],
        row |-> [name   |-> model_name,
                 action |-> action,
                 source |-> IF best.score >= MIN_SCORE THEN best.path[2] ELSE <<>>,
                 target |-> target_path[2],
                 score  |-> best.score,
                 top3   |-> [k \in 1..Min(3, Len(candidates)) |->
                               <<candidates[k].path[2], candidates[k].score>>]]]

ZeroCounters == [copied |-> 0, skipped |-> 0, already_exists |-> 0, no_match |-> 0]
NoFirstRun   == [done |-> FALSE, dry |-> FALSE, listing |-> "fwd",
                 finished |-> FALSE, actions |-> <<>>]

IdleMatch ==
    /\ outputDir = OUTPUT_DIR
    /\ excel = [state |-> "missing", names |-> <<>>]
    /\ fuzzTab = <<>>
    /\ fs = <<>>
    /\ dirs = {}
    /\ reportFile = Absent
    /\ run = "first"
    /\ dryRun = FALSE
    /\ listing = "fwd"
    /\ pcB = "off"
    /\ image_index = <<>>
    /\ iB = 0
    /\ report_rows = <<>>
    /\ counters = ZeroCounters
    /\ firstRun = NoFirstRun

(***************************************************************************)
(* SpecNorm: normalise applied to a text, then to its own result           *)
(***************************************************************************)
MaxLen == 4

NormAlphabet == {"a", "B", "1", "_", "-", " ", ".", NL}

RECURSIVE TextsUpTo(_, _)
TextsUpTo(A, n) ==
    IF n = 0 THEN {<<>>}
    ELSE LET shorter == TextsUpTo(A, n - 1)
         IN shorter \cup {Append(t, c) : t \in shorter, c \in A}

Knight_02_png == <<"K","n","i","g","h","t","_","0","2",".","p","n","g">>
Iron_Fang_01  == <<"I","r","o","n"," ","F","a","n","g"," ","0","1">>

NormExamples == {Knight_02_png, Iron_Fang_01}

IdleNorm ==
    /\ normIn = <<>>
    /\ normOnce = <<>>
    /\ normTwice = <<>>
    /\ normPasses = 0

InitNorm ==
    /\ IdleCrop
    /\ IdleTrim
    /\ IdleMatch
    /\ normIn \in TextsUpTo(NormAlphabet, MaxLen) \cup NormExamples
    /\ normOnce = <<>>
    /\ normTwice = <<>>
    /\ normPasses = 0

NormaliseFirst ==
    /\ normPasses = 0
    /\ normOnce' = normalise(normIn)
    /\ normPasses' = 1
    /\ UNCHANGED <<normIn, normTwice, cropVars, trimVars, matchVars>>

NormaliseAgain ==
    /\ normPasses = 1
    /\ normTwice' = normalise(normOnce)
    /\ normPasses' = 2
    /\ UNCHANGED <<normIn, normOnce, cropVars, trimVars, matchVars>>

NextNorm == NormaliseFirst \/ NormaliseAgain

SpecNorm == InitNorm /\ [][NextNorm]_vars

(***************************************************************************)
(* SpecCrop: centre_crop_square applied to a picture of any bounded size   *)
(***************************************************************************)
MaxDim == 100

InitCrop ==
    /\ IdleNorm
    /\ IdleTrim
    /\ IdleMatch
    /\ \E w \in 1..MaxDim, h \in 1..MaxDim : cropIn = Picture(w, h)
    /\ cropOut = NoImage
    /\ cropDone = FALSE

CropStep ==
    /\ ~cropDone
    /\ cropOut' = centre_crop_square(cropIn)
    /\ cropDone' = TRUE
    /\ UNCHANGED <<cropIn, normVars, trimVars, matchVars>>

NextCrop == CropStep

SpecCrop == InitCrop /\ [][NextCrop]_vars

(***************************************************************************)
(* SpecA: Trim.py main() over the pictures iter_images yields              *)
(***************************************************************************)
MaxImages == 2

\* --thumb-size default (Trim.py line 99)
DefaultThumbSize == 256

PictureSizes == {<<2, 2>>, <<4, 4>>, <<4, 2>>, <<3, 4>>, <<5, 4>>}
Pictures == {Picture(d[1], d[2]) : d \in PictureSizes}
MaxSizeArgs == {None, Some(0), Some(3)}
ThumbSizeArgs == {2, DefaultThumbSize}

RECURSIVE SeqsUpTo(_, _)
SeqsUpTo(S, n) ==
    IF n = 0 THEN {<<>>}
    ELSE LET shorter == SeqsUpTo(S, n - 1)
         IN shorter \cup {Append(t, x) : t \in shorter, x \in S}

\* outGiven: --out was given a non-empty value (main tests args.out for truth,
\* lines 112 and 120, so an empty --out counts as none)
InitA ==
    /\ IdleNorm
    /\ IdleCrop
    /\ IdleMatch
    /\ argsA \in [folderOk : BOOLEAN, inplace : BOOLEAN, outGiven : BOOLEAN,
                  max_size : MaxSizeArgs, thumb_size : ThumbSizeArgs,
                  dry_run : BOOLEAN]
    /\ imagesA \in SeqsUpTo(Pictures, MaxImages)
    /\ pcA = "start"
    /\ idxA = 0
    /\ changed = 0
    /\ skipped = 0
    /\ failed = 0
    /\ exitA = NotExited
    /\ outcomeA = <<>>
    /\ writesA = <<>>

\* Trim.py main, lines 105-114: the folder is missing or no directory
ARejectFolder ==
    /\ pcA = "start"
    /\ ~argsA.folderOk
    /\ exitA' = 2
    /\ pcA' = "done"
    /\ UNCHANGED <<argsA, imagesA, idxA, changed, skipped, failed, outcomeA,
                   writesA, normVars, cropVars, matchVars>>

\* Trim.py main, lines 112-114: --inplace together with --out
ARejectArgs ==
    /\ pcA = "start"
    /\ argsA.folderOk
    /\ argsA.inplace /\ argsA.outGiven
    /\ exitA' = 2
    /\ pcA' = "done"
    /\ UNCHANGED <<argsA, imagesA, idxA, changed, skipped, failed, outcomeA,
                   writesA, normVars, cropVars, matchVars>>

\* Trim.py main, lines 116-127: the roots are chosen, the counters start at 0
AStart ==
    /\ pcA = "start"
    /\ argsA.folderOk
    /\ ~(argsA.inplace /\ argsA.outGiven)
    /\ changed' = 0 /\ skipped' = 0 /\ failed' = 0
    /\ idxA' = 1
    /\ pcA' = "loop"
    /\ UNCHANGED <<argsA, imagesA, exitA, outcomeA, writesA, normVars, cropVars, matchVars>>

\* Trim.py main, lines 129-185: the next picture
AProcess ==
    /\ pcA = "loop"
    /\ idxA <= Len(imagesA)
    /\ \E hazard \in Hazards :
          LET st == ProcessImage(
                      [changed |-> changed, skipped |-> skipped,
                       failed |-> failed, writes |-> writesA, abort |-> FALSE,
                       status |-> "ok", need |-> FALSE, sq |-> NoImage,
                       thumb |-> NoImage, failedAt |-> "none"],
                      argsA, imagesA[idxA], idxA, hazard)
          IN /\ changed' = st.changed
             /\ skipped' = st.skipped
             /\ failed' = st.failed
             /\ writesA' = st.writes
             /\ outcomeA' = Append(outcomeA,
                    [status |-> st.status, need |-> st.need, sq |-> st.sq,
                     thumb |-> st.thumb, failedAt |-> st.failedAt])
             /\ idxA' = IF st.abort THEN Len(imagesA) + 1 ELSE idxA + 1
    /\ UNCHANGED <<argsA, imagesA, pcA, exitA, normVars, cropVars, matchVars>>

\* Trim.py main, lines 187-191: the summary and the exit status
AFinish ==
    /\ pcA = "loop"
    /\ idxA > Len(imagesA)
    /\ exitA' = exitStatus(failed)
    /\ pcA' = "done"
    /\ UNCHANGED <<argsA, imagesA, idxA, changed, skipped, failed, outcomeA,
                   writesA, normVars, cropVars, matchVars>>

NextA == ARejectFolder \/ ARejectArgs \/ AStart \/ AProcess \/ AFinish

SpecA == InitA /\ [][NextA]_vars

(***************************************************************************)
(* SpecB: Image.py main(), run and then run again over the same files      *)
(***************************************************************************)
MaxNames == 2

Name_A_colon_B == <<"A",":","B">>
Name_AB        == <<"A","B">>
Name_K_01      == <<"K"," ","0","1">>
NameUniverse   == {Name_A_colon_B, Name_AB, Name_K_01}

File_ab_JPG    == <<"a","b",".","J","P","G">>
File_AB_png    == <<"A","B",".","p","n","g">>
File_k_02_jpeg == <<"k","_","0","2",".","j","p","e","g">>
File_notes_txt == <<"n","o","t","e","s",".","t","x","t">>
File_K_01_png  == <<"K"," ","0","1",".","p","n","g">>

\* the files the image directory may hold at first, besides notes.txt
InitialImages  == {File_ab_JPG, File_AB_png, File_k_02_jpeg}
\* the files the output directory may hold at first
InitialOutputs == {File_AB_png}

\* a listing order of a directory; iterdir() uses it or its reverse
ListingOrder == <<File_ab_JPG, File_AB_png, File_k_02_jpeg, File_notes_txt,
                  File_K_01_png>>
AllFileNames == Range(ListingOrder)
AllPaths     == {IMAGE_DIR, OUTPUT_DIR} \X AllFileNames

Reverse(t) == [k \in DOMAIN t |-> t[Len(t) + 1 - k]]

\* Path.iterdir(): the names in directory dir, in the run's listing order
iterdir(files, dir, order) ==
    SelectSeq(IF order = "fwd" THEN ListingOrder ELSE Reverse(ListingOrder),
              LAMBDA name : files[<<dir, name>>] # Absent)

\* Image.py main, lines 126-129: every entry is a regular file here, so
\* f.is_file() holds
image_files(files, order) ==
    SelectSeq(iterdir(files, IMAGE_DIR, order),
              LAMBDA name : Lower(Suffix(name)) \in ImageSuffixes)

\* Image.py main, lines 137-139
ImageIndex(files, order) ==
    LET names == image_files(files, order)
    IN [k \in DOMAIN names |->
            [path |-> <<IMAGE_DIR, names[k]>>, norm |-> normalise(Stem(names[k]))]]

\* thefuzz's five ratios for a pair of texts: below MIN_SCORE, just at it,
\* and 100 for equal texts
FuzzLow       == <<41, 59, 37, 50, 25>>
FuzzEdge      == <<52, 60, 55, 60, 40>>
FuzzNormEqual == <<100, 100, 100, 100, 57>>
FuzzEqual     == <<100, 100, 100, 100, 100>>

\* what thefuzz may answer for a pair of lowercased texts: 100 for equal
\* texts, anything otherwise
FuzzAnswers(name, stem) ==
    IF name = stem THEN {FuzzEqual}
    ELSE IF normalise(name) = normalise(stem) /\ normalise(name) # <<>>
         THEN {FuzzNormEqual}
    ELSE {FuzzLow, FuzzEdge}

\* every table of answers over the given (name, stem) pairs
RECURSIVE FuzzTables(_)
FuzzTables(pairs) ==
    IF pairs = {} THEN {<<>>}
    ELSE LET p == CHOOSE x \in pairs : TRUE
         IN {(p :> r) @@ t : r \in FuzzAnswers(p[1], p[2]),
                             t \in FuzzTables(pairs \ {p})}

DistinctSeqs(S, n) ==
    {t \in SeqsUpTo(S, n) : \A i, j \in DOMAIN t : i # j => t[i] # t[j]}

\* the spreadsheet: missing, without a Name column, or with its unique names
ExcelInputs ==
    {[state |-> "missing", names |-> <<>>], [state |-> "nocolumn", names |-> <<>>]}
    \cup {[state |-> "ok", names |-> t] : t \in DistinctSeqs(NameUniverse, MaxNames)}

\* the files at first: the image directory with some images and notes.txt,
\* the output directory (when it is another one) with some files of its own;
\* the content of a file is named after the path it is first found at
InitialFiles(imgs, outs) ==
    [p \in AllPaths |->
        IF p[1] = IMAGE_DIR /\ p[2] \in imgs \cup {File_notes_txt} THEN p
        ELSE IF p[1] = OUTPUT_DIR /\ p[2] \in outs THEN p
        ELSE Absent]

InitB ==
    /\ IdleNorm
    /\ IdleCrop
    /\ IdleTrim
    /\ outputDir \in {OUTPUT_DIR, IMAGE_DIR}
    /\ excel \in ExcelInputs
    /\ \E imgDir \in BOOLEAN, imgs \in SUBSET InitialImages,
          outDir \in BOOLEAN, outs \in SUBSET InitialOutputs :
          /\ ~imgDir => imgs = {}
          /\ ~outDir \/ outputDir = IMAGE_DIR => outs = {}
          /\ outputDir = IMAGE_DIR => outDir = imgDir
          /\ dirs = (IF imgDir THEN {IMAGE_DIR} ELSE {})
                    \cup (IF outDir THEN {outputDir} ELSE {})
          /\ fs = IF imgDir THEN InitialFiles(imgs, outs)
                  ELSE [p \in AllPaths |-> Absent]
          \* thefuzz is asked about the model names and the stems of the
          \* images, those a run may copy into the image directory included
          /\ fuzzTab \in FuzzTables(
                 {Lower(n) : n \in Range(excel.names)}
                 \X ({Lower(Stem(f)) : f \in imgs}
                     \cup (IF outputDir = IMAGE_DIR
                           THEN {Lower(safe_filename(n)) : n \in Range(excel.names)}
                           ELSE {})))
    /\ reportFile = Absent
    /\ run = "first"
    /\ dryRun \in BOOLEAN
    /\ listing = "fwd"
    /\ pcB = "idle"
    /\ image_index = <<>>
    /\ iB = 0
    /\ report_rows = <<>>
    /\ counters = ZeroCounters
    /\ firstRun = NoFirstRun

keptByStart == <<outputDir, excel, fuzzTab, fs, reportFile, run, dryRun,
                 firstRun, normVars, cropVars, trimVars>>

\* Image.py main, lines 108-110: no spreadsheet
BRejectExcel ==
    /\ pcB = "idle"
    /\ excel.state = "missing"
    /\ pcB' = "done"
    /\ UNCHANGED <<dirs, listing, image_index, iB, report_rows, counters, keptByStart>>

\* Image.py main, lines 111-113: no image directory
BRejectImageDir ==
    /\ pcB = "idle"
    /\ excel.state # "missing"
    /\ IMAGE_DIR \notin dirs
    /\ pcB' = "done"
    /\ UNCHANGED <<dirs, listing, image_index, iB, report_rows, counters, keptByStart>>

\* Image.py main, lines 114-120: the output directory is made, then the
\* spreadsheet turns out to have no Name column
BRejectColumn ==
    /\ pcB = "idle"
    /\ excel.state = "nocolumn"
    /\ IMAGE_DIR \in dirs
    /\ dirs' = dirs \cup {outputDir}
    /\ pcB' = "done"
    /\ UNCHANGED <<listing, image_index, iB, report_rows, counters, keptByStart>>

\* Image.py main, lines 114-134: the output directory is made, then the image
\* directory turns out to hold no image
BRejectNoImages ==
    /\ pcB = "idle"
    /\ excel.state = "ok"
    /\ IMAGE_DIR \in dirs
    /\ \E order \in {"fwd", "rev"} :
          /\ image_files(fs, order) = <<>>
          /\ listing' = order
    /\ dirs' = dirs \cup {outputDir}
    /\ pcB' = "done"
    /\ UNCHANGED <<image_index, iB, report_rows, counters, keptByStart>>

\* Image.py main, lines 103-143: the output directory is made, the names are
\* loaded, the images indexed
BBegin ==
    /\ pcB = "idle"
    /\ excel.state = "ok"
    /\ IMAGE_DIR \in dirs
    /\ \E order \in {"fwd", "rev"} :
          /\ image_files(fs, order) # <<>>
          /\ listing' = order
          /\ image_index' = ImageIndex(fs, order)
    /\ dirs' = dirs \cup {outputDir}
    /\ report_rows' = <<>>
    /\ counters' = ZeroCounters
    /\ iB' = 1
    /\ pcB' = "loop"
    /\ UNCHANGED keptByStart

\* Image.py main, lines 145-200: the next model name
BProcess ==
    /\ pcB = "loop"
    /\ iB <= Len(excel.names)
    /\ LET r == MatchOne(fs, fuzzTab, image_index, outputDir, excel.names[iB],
                         dryRun, counters)
       IN /\ fs' = r.files
          /\ counters' = r.counters
          /\ report_rows' = Append(report_rows, r.row)
    /\ iB' = iB + 1
    /\ UNCHANGED <<outputDir, excel, fuzzTab, dirs, reportFile, run, dryRun,
                   listing, pcB, image_index, firstRun, normVars, cropVars, trimVars>>

\* Image.py main, lines 202-224: the summary, then the report is written
BFinish ==
    /\ pcB = "loop"
    /\ iB > Len(excel.names)
    /\ report_rows # <<>>
    /\ reportFile' = [rows |-> report_rows]
    /\ pcB' = "done"
    /\ UNCHANGED <<outputDir, excel, fuzzTab, fs, dirs, run, dryRun, listing,
                   image_index, iB, report_rows, counters, firstRun,
                   normVars, cropVars, trimVars>>

\* Image.py main, lines 215-216: with no model name, open() has made the report
\* file empty when report_rows[0] raises IndexError
BFinishNoRows ==
    /\ pcB = "loop"
    /\ iB > Len(excel.names)
    /\ report_rows = <<>>
    /\ reportFile' = [rows |-> <<>>]
    /\ pcB' = "crashed"
    /\ UNCHANGED <<outputDir, excel, fuzzTab, fs, dirs, run, dryRun, listing,
                   image_index, iB, report_rows, counters, firstRun,
                   normVars, cropVars, trimVars>>

\* the script is started again, DRY_RUN edited or not (Image.py line 49)
BRerun ==
    /\ pcB \in {"done", "crashed"}
    /\ run = "first"
    /\ run' = "rerun"
    /\ firstRun' = [done |-> TRUE, dry |-> dryRun, listing |-> listing,
                    finished |-> pcB = "done" /\ report_rows # <<>>,
                    actions |-> [k \in DOMAIN report_rows |-> report_rows[k].action]]
    /\ dryRun' \in BOOLEAN
    /\ pcB' = "idle"
    /\ image_index' = <<>>
    /\ iB' = 0
    /\ report_rows' = <<>>
    /\ counters' = ZeroCounters
    /\ UNCHANGED <<outputDir, excel, fuzzTab, fs, dirs, reportFile, listing,
                   normVars, cropVars, trimVars>>

NextB ==
    \/ BRejectExcel \/ BRejectImageDir \/ BRejectColumn \/ BRejectNoImages
    \/ BBegin \/ BProcess \/ BFinish \/ BFinishNoRows \/ BRerun

SpecB == InitB /\ [][NextB]_vars

(***************************************************************************)
(* Claims                                                                  *)
(***************************************************************************)
EndsInDigit(s) == s # <<>> /\ s[Len(s)] \in DigitChars

EndsInExtension(s) ==
    \E k \in 2..4 : /\ Len(s) > k
                    /\ s[Len(s) - k] = "."
                    /\ \A j \in (Len(s) - k + 1)..Len(s) : s[j] \in LowerChars

\* what every result of normalise looks like
NormalForm(s) ==
    /\ \A i \in DOMAIN s : s[i] \notin UpperChars \cup DashChars \cup {"\t", NL}
    /\ s # <<>> => s[1] # " " /\ s[Len(s)] # " "
    /\ \A i \in 1..(Len(s) - 1) : ~(s[i] = " " /\ s[i + 1] = " ")

\* C7 as stated: normalise is idempotent, normalise(normalise(x)) = normalise(x)
\* for every text x.
C7_Idempotent == normPasses = 2 => normTwice = normOnce

\* C7 amended: the result of normalise is lowercase, has no underscore or
\* hyphen, and its whitespace is single inner spaces; a second normalise
\* leaves it alone exactly when it ends neither in a digit nor in an
\* extension-like suffix; "Knight_02.png" gives "knight".
C7_IdempotentUnlessSuffixLeft ==
    /\ normPasses >= 1 => NormalForm(normOnce)
    /\ normPasses >= 1 /\ normIn = Knight_02_png
          => normOnce = <<"k","n","i","g","h","t">>
    /\ normPasses = 2 =>
          (normTwice = normOnce
              <=> ~EndsInDigit(normOnce) /\ ~EndsInExtension(normOnce))

\* "Knight_02.png" normalised twice: "knight" both times
C7_Witness ==
    /\ normPasses = 2
    /\ normIn = Knight_02_png
    /\ normOnce = <<"k","n","i","g","h","t">>
    /\ normTwice = normOnce

\* C8: centre_crop_square returns a square picture unchanged; any other
\* w x h picture becomes a min(w,h) square whose box starts at
\* ((w - side) div 2, (h - side) div 2): 0 on the smaller axis,
\* floor((dim - side) / 2) on the larger one, inside the picture.
C8_CentreCrop ==
    cropDone =>
        LET w == cropIn.w
            h == cropIn.h
            side == IF w < h THEN w ELSE h
            left == cropOut.box[1]
            top == cropOut.box[2]
            right == cropOut.box[3]
            bottom == cropOut.box[4]
        IN IF w = h THEN cropOut = cropIn
           ELSE /\ cropOut.w = side /\ cropOut.h = side
                /\ right - left = side /\ bottom - top = side
                /\ 0 <= left /\ right <= w /\ 0 <= top /\ bottom <= h
                /\ w < h => left = 0 /\ 2 * top <= h - side /\ h - side <= 2 * top + 1
                /\ h < w => top = 0 /\ 2 * left <= w - side /\ w - side <= 2 * left + 1

\* a 100 x 60 picture cropped to 60 x 60 at horizontal offset 20, vertical 0
C8_Witness ==
    /\ cropDone
    /\ cropIn.w = 100 /\ cropIn.h = 60
    /\ cropOut.w = 60 /\ cropOut.h = 60
    /\ cropOut.box = <<20, 0, 80, 60>>

FileWrites(kind, i) ==
    Cardinality({k \in DOMAIN writesA : writesA[k] = <<"file", kind, i>>})

SaveAttempts(kind, i) ==
    Cardinality({k \in DOMAIN writesA : writesA[k] = <<"mkdir", kind, i>>})

FailedPictures == {i \in DOMAIN outcomeA : outcomeA[i].status = "failed"}

\* the --max-size downscale changes the size of the square cut from im
DownscaleChanges(im, max_size) ==
    /\ max_size # None
    /\ Val(max_size) > 0
    /\ (IF im.w < im.h THEN im.w ELSE im.h) > Val(max_size)

\* Pipeline A in a dry run writes nothing (the Pipeline A half of C4)
A_DryRunWritesNothing == argsA.dry_run => writesA = <<>>

\* the Pipeline A half of C5: the summary of a dry run counts the squares
\* it would skip as skipped, as a real run does (main adds every picture of a
\* dry run to `changed` instead, line 170)
A_DryRunCountsSkips ==
    pcA = "done" /\ argsA.dry_run =>
        skipped = Cardinality({i \in DOMAIN outcomeA :
                      outcomeA[i].status = "ok" /\ ~outcomeA[i].need})

\* C6: a failure on one picture never ends the batch: every picture after
\* it is still processed, each failure adds one to `failed`, the exit status
\* is 0 exactly when nothing failed and 1 exactly when something did; it is 2,
\* with nothing processed or written, exactly when the folder is missing or
\* --inplace comes with --out.
C6_FailureIsolation ==
    /\ pcA = "loop" => Len(outcomeA) = idxA - 1 /\ exitA = NotExited
    /\ failed = Cardinality(FailedPictures)
    /\ pcA = "done" =>
          /\ exitA \in {0, 1, 2}
          /\ exitA = 2 <=> ~argsA.folderOk \/ (argsA.inplace /\ argsA.outGiven)
          /\ exitA = 2 => outcomeA = <<>> /\ writesA = <<>>
          /\ exitA # 2 => Len(outcomeA) = Len(imagesA)
          /\ exitA = 0 <=> argsA.folderOk /\ ~(argsA.inplace /\ argsA.outGiven)
                             /\ FailedPictures = {}
          /\ exitA = 1 <=> FailedPictures # {}

\* the first picture failed, the second was processed all the same, exit 1
C6_Witness ==
    /\ pcA = "done"
    /\ exitA = 1
    /\ Len(outcomeA) = 2
    /\ outcomeA[1].status = "failed"
    /\ outcomeA[2].status = "ok"
    /\ failed = 1

\* C9: in a real run, a picture processed without error has its square
\* written at most once, and exactly when it was not square or the max-size
\* downscale changed its size; its thumbnail is written in either case.
C9_SquareWrittenWhenNeeded ==
    ~argsA.dry_run =>
        \A i \in DOMAIN outcomeA :
            outcomeA[i].status = "ok" =>
                /\ FileWrites("square", i) <= 1
                /\ FileWrites("square", i) = 1
                      <=> \/ imagesA[i].w # imagesA[i].h
                          \/ DownscaleChanges(imagesA[i], argsA.max_size)
                /\ FileWrites("thumb", i) = 1

\* --inplace with --max-size 3: a 2 x 2 picture gets a thumbnail and no square
\* write, a 4 x 4 one is written once
C9_Witness ==
    /\ pcA = "done"
    /\ ~argsA.dry_run /\ argsA.inplace /\ argsA.max_size = Some(3)
    /\ Len(outcomeA) = 2
    /\ imagesA[1] = Picture(2, 2) /\ outcomeA[1].status = "ok"
    /\ FileWrites("square", 1) = 0 /\ FileWrites("thumb", 1) = 1
    /\ imagesA[2] = Picture(4, 4) /\ outcomeA[2].status = "ok"
    /\ FileWrites("square", 2) = 1 /\ FileWrites("thumb", 2) = 1

\* C10 as stated: at the end of a run changed + skipped + failed is the number
\* of pictures enumerated.
C10_CountedOnce ==
    pcA = "done" /\ exitA # 2 => changed + skipped + failed = Len(imagesA)

\* pictures whose thumbnail save was started and raised
ThumbSaveFailed ==
    {i \in DOMAIN outcomeA : SaveAttempts("thumb", i) = 1 /\ FileWrites("thumb", i) = 0}

\* C10 amended: at the end of a run changed + skipped + failed is the number
\* of pictures enumerated plus the number whose thumbnail write failed: such a
\* picture is counted as written or skipped and as failed; every other one is
\* counted once, and in a dry run the sum is the number enumerated.
C10_CountedOnceUnlessThumbFails ==
    pcA = "done" /\ exitA # 2 =>
        /\ changed + skipped + failed = Len(imagesA) + Cardinality(ThumbSaveFailed)
        /\ ThumbSaveFailed \subseteq FailedPictures
        /\ argsA.dry_run => ThumbSaveFailed = {}

\* one picture: its square was written, its thumbnail write failed, and it is
\* counted twice
C10_Witness ==
    /\ pcA = "done"
    /\ Len(imagesA) = 1
    /\ FileWrites("square", 1) = 1
    /\ ThumbSaveFailed = {1}
    /\ changed = 1 /\ skipped = 0 /\ failed = 1

\* the composite score of the k-th indexed image for a model name: the largest
\* of thefuzz's five answers
ScoreOf(name, k) ==
    LET r == fuzzTab[<<Lower(name), Lower(Stem(image_index[k].path[2]))>>]
    IN CHOOSE m \in Range(r) : \A x \in Range(r) : x <= m

\* the top-ranked candidate: the highest score, the earliest enumerated among equals
TopCandidate(name) ==
    CHOOSE k \in DOMAIN image_index :
        \A j \in DOMAIN image_index :
            \/ ScoreOf(name, j) < ScoreOf(name, k)
            \/ ScoreOf(name, j) = ScoreOf(name, k) /\ k <= j

\* this step appends the report row of the model name at iB
RowAdded == pcB = "loop" /\ Len(report_rows') = Len(report_rows) + 1

NewRow == report_rows'[Len(report_rows')]

\* C1: a copy only ever lands on a path that holds no file: no file that
\* exists, in the output or the image directory, present before the run or
\* made earlier in it, ever changes content or disappears.
C1_NeverOverwrites ==
    [][\A p \in AllPaths : fs[p] # Absent => fs'[p] = fs[p]]_vars

\* OUTPUT_DIR is IMAGE_DIR, "A:B" and "AB" both aim at AB.png: the first is
\* copied, the second finds the copy and leaves it as it is
C1_Witness ==
    /\ pcB = "done"
    /\ outputDir = IMAGE_DIR
    /\ Len(report_rows) = 2
    /\ report_rows[1].action = "COPIED"
    /\ report_rows[2].action = "SKIPPED_EXISTS"
    /\ report_rows[1].target = File_AB_png
    /\ report_rows[2].target = File_AB_png
    /\ fs[<<IMAGE_DIR, File_AB_png>>] = <<IMAGE_DIR, report_rows[1].source>>

\* C2: each model name gets one decision, made from the top-ranked candidate
\* (highest score, earliest enumerated among equals) and the target path alone:
\* NO_MATCH below MIN_SCORE; else ALREADY_CORRECT when the target exists and is
\* that candidate's file; else SKIPPED_EXISTS when the target exists; else
\* COPIED (DRY_RUN_COPY in a dry run), copying that candidate and no other.
C2_DecisionFromTopCandidate ==
    /\ [](pcB = "loop" => Len(report_rows) = iB - 1)
    /\ [](pcB = "done" /\ report_rows # <<>> => Len(report_rows) = Len(excel.names))
    /\ [][RowAdded =>
            LET name   == excel.names[iB]
                top    == TopCandidate(name)
                best   == image_index[top].path
                target == TargetPath(outputDir, name)
                expected ==
                    IF ScoreOf(name, top) < 60 THEN "NO_MATCH"
                    ELSE IF fs[target] # Absent /\ target = best THEN "ALREADY_CORRECT"
                    ELSE IF fs[target] # Absent THEN "SKIPPED_EXISTS"
                    ELSE IF dryRun THEN "DRY_RUN_COPY" ELSE "COPIED"
            IN /\ NewRow.name = name
               /\ NewRow.action = expected
               /\ NewRow.score = ScoreOf(name, top)
               /\ expected # "NO_MATCH" => NewRow.source = best[2]
               /\ fs' = IF expected = "COPIED"
                        THEN [fs EXCEPT ![target] = fs[best]] ELSE fs
       ]_vars

\* two candidates score the same at the top, the earlier one is the best, its
\* target exists, and the name is skipped although the second would do as well
C2_Witness ==
    /\ pcB = "done"
    /\ report_rows # <<>>
    /\ LET row == report_rows[Len(report_rows)]
       IN /\ row.action = "SKIPPED_EXISTS"
          /\ Len(row.top3) >= 2
          /\ row.top3[1][2] = row.top3[2][2]
          /\ row.top3[1][1] = image_index[1].path[2]
          /\ row.source = row.top3[1][1]

\* C3 as stated: a name COPIED by a first real run is ALREADY_CORRECT on the rerun.
C3_RerunAlreadyCorrect ==
    run = "rerun" /\ ~firstRun.dry =>
        \A k \in DOMAIN report_rows :
            firstRun.actions[k] = "COPIED"
                => report_rows[k].action = "ALREADY_CORRECT"

\* C3 amended: a name COPIED by a first real run is never copied again: the
\* rerun decides SKIPPED_EXISTS or ALREADY_CORRECT for it and changes no file;
\* it decides ALREADY_CORRECT only when OUTPUT_DIR is IMAGE_DIR and the top
\* candidate of the rerun is the target file itself, SKIPPED_EXISTS otherwise.
C3_RerunNeverCopiesAgain ==
    /\ [](run = "rerun" /\ ~firstRun.dry =>
            \A k \in DOMAIN report_rows :
                firstRun.actions[k] = "COPIED" =>
                    /\ report_rows[k].action \in {"ALREADY_CORRECT", "SKIPPED_EXISTS"}
                    /\ report_rows[k].action = "ALREADY_CORRECT"
                          <=> /\ outputDir = IMAGE_DIR
                              /\ report_rows[k].source = report_rows[k].target)
    /\ [][run = "rerun" /\ ~firstRun.dry /\ RowAdded
             /\ firstRun.actions[iB] = "COPIED" => fs' = fs]_vars

\* "K 01" with k_02.jpeg and a separate output directory: COPIED by the first
\* run, SKIPPED_EXISTS on the rerun
C3_Witness ==
    /\ run = "rerun"
    /\ pcB = "done"
    /\ ~firstRun.dry
    /\ outputDir # IMAGE_DIR
    /\ excel.names = <<Name_K_01>>
    /\ firstRun.actions = <<"COPIED">>
    /\ Len(report_rows) = 1
    /\ report_rows[1].action = "SKIPPED_EXISTS"
    /\ report_rows[1].source = File_k_02_jpeg

\* C4: a dry run of Pipeline B makes or changes no file and no directory: no
\* image, no output directory, no report.
C4_DryRunWritesNothing ==
    [][dryRun /\ pcB \in {"idle", "loop"}
          => fs' = fs /\ dirs' = dirs /\ reportFile' = reportFile]_vars

SameDecision(dryAction, realAction) ==
    IF dryAction = "DRY_RUN_COPY" THEN realAction = "COPIED"
    ELSE realAction = dryAction

\* C5: a dry run and a real run from the same files, the same spreadsheet and
\* the same listing order decide the same for every model name, COPIED being
\* reported as DRY_RUN_COPY.
C5_DryRunSameDecisions ==
    /\ run = "rerun" /\ pcB = "done"
    /\ firstRun.dry /\ firstRun.finished /\ ~dryRun
    /\ firstRun.listing = listing
    /\ Len(report_rows) = Len(firstRun.actions)
    => \A k \in DOMAIN report_rows :
           SameDecision(firstRun.actions[k], report_rows[k].action)

====
